---- MODULE Spec2Model ----
(***************************************************************************)
(* Model of tfn/tools/callbacks.py (WriteCartesians, ClassificationMetrics) *)
(* and tfn/layers/utility_layers.py (Preprocessing, UnitVectors).           *)
(*                                                                          *)
(* Four specifications share the module's variables; each one drives one    *)
(* component and leaves the variables of the others at their idle values:   *)
(*   Spec    WriteCartesians: __init__, on_epoch_end, on_train_end          *)
(*   SpecPre Preprocessing: call and compute_output_shape, on shapes        *)
(*   SpecUV  UnitVectors.call on integer point clouds                       *)
(*   SpecCM  ClassificationMetrics.on_epoch_end and its metrics             *)
(***************************************************************************)
EXTENDS Integers, Sequences, FiniteSets

VARIABLES
    \* ---- WriteCartesians (callbacks.py:28-143)
    validation,      \* self.validation: None or [[z, r, p], [ts]]
    test,            \* self.test
    max_structures,  \* self.max_structures
    write_rate,      \* self.write_rate
    kwargs,          \* which of max_structures / write_rate the caller passed
    files,           \* the files on disk under self.path
    lastCall,        \* the latest write_cartesians call: its data, path and files written
    scalars,         \* tf.summary.scalar(name, value, step) records: <<name, step>>
    printed,         \* what on_train_end printed: which data the loss came from
    calls,           \* the epochs on_epoch_end has been called with
    phase,           \* "training" | "ended" | "crashed" ("idle": not driven)
    raised,          \* the exception that left a handler, or "none"
    handler,         \* the method called last
    \* ---- Preprocessing (utility_layers.py:16-83)
    pre,
    \* ---- UnitVectors (utility_layers.py:86-106)
    uv,
    \* ---- ClassificationMetrics (callbacks.py:146-186)
    cm

wcVars == <<validation, test, max_structures, write_rate, kwargs, files,
            lastCall, scalars, printed, calls, phase, raised, handler>>
vars == <<wcVars, pre, uv, cm>>

Idle == [pc |-> "idle"]

Min(a, b) == IF a <= b THEN a ELSE b
Max(a, b) == IF a >= b THEN a ELSE b

\* ------------------------------------------------------------------ bounds
MaxN == 2            \* structures in a data set: 0..MaxN
MaxStructures == 2   \* explicit max_structures: 0..MaxStructures
MaxRate == 2         \* explicit write_rate: 0..MaxRate
MaxEpoch == 4        \* small epochs passed to on_epoch_end: 0..MaxEpoch
MaxCalls == 2        \* distinct epochs on_epoch_end is called with
MaxBatch == 2        \* batch size of a Preprocessing input: 1..MaxBatch
MaxPoints == 2       \* points of a cloud: 1..MaxPoints
MaxZ == 2            \* Preprocessing.max_z: 1..MaxZ
MaxCenters == 2      \* basis_function._n_centers: 1..MaxCenters
MaxCoord == 1        \* a coordinate of a point: 0..MaxCoord
MaxLen == 2          \* entries of a target / prediction array: 0..MaxLen
Grid == 3            \* array entries are k / Grid, k in 0..Grid
MaxMetricEpoch == 1  \* epochs passed to ClassificationMetrics.on_epoch_end

\* --------------------------------------------------------- WriteCartesians
DefaultMaxStructures == 5   \* max_structures: int = 5
DefaultWriteRate == 100     \* write_rate: int = 100
DocMaxStructures == 10      \* ":param max_structures: int. Defaults to 10."
DocWriteRate == 50          \* ":param write_rate: int. Defaults to 50."

\* None, or a data set [[z, r, p], [ts]] of n structures; structure k of each
\* array is named k.
NoneData == [none |-> TRUE, z |-> <<>>, r |-> <<>>, p |-> <<>>, ts |-> <<>>]
Dataset(n) ==
    [none |-> FALSE, z |-> [k \in 1..n |-> k], r |-> [k \in 1..n |-> k],
     p |-> [k \in 1..n |-> k], ts |-> [k \in 1..n |-> k]]
DataArgs == {NoneData} \cup {Dataset(n) : n \in 0..MaxN}

Epochs == (0..MaxEpoch) \cup {DocWriteRate, DefaultWriteRate}

\* mutant: s[:m + 1], an inclusive upper index
SliceToInclusive(s, m) == SubSeq(s, 1, Min(m + 1, Len(s)))

\* Python's s[:m]
SliceTo(s, m) ==
    IF m >= 0 THEN SubSeq(s, 1, Min(m, Len(s)))
    ELSE SubSeq(s, 1, Max(Len(s) + m, 0))

\* self.model.predict(data[0]): one prediction per input structure
predict(data) == [k \in 1..Len(data.z) |-> data.z[k]]

\* enumerate(zip(five slices)): item k carries Python index k - 1
unwrap_data_lazily(data, ms) ==
    LET pred == predict(data)
        zs == SliceTo(data.z, ms)
        rs == SliceTo(data.r, ms)
        ps == SliceTo(data.p, ms)
        tss == SliceTo(data.ts, ms)
        preds == SliceTo(pred, ms)
        len == Min(Len(zs), Min(Len(rs), Min(Len(ps), Min(Len(tss), Len(preds)))))
    IN [k \in 1..len |->
          [i |-> k - 1, z |-> zs[k], r |-> rs[k], p |-> ps[k],
           ts |-> tss[k], pred |-> preds[k]]]

EpochPath(epoch) == [dir |-> "epoch", n |-> epoch]
TestPath == [dir |-> "test", n |-> 0]

File(base, sub, i, suffix) == [base |-> base, sub |-> sub, i |-> i, suffix |-> suffix]

\* np.savetxt / ndarrays_to_xyz: one file at the given path
ndarrays_to_xyz(path) == <<path>>

\* The files one iteration of write_cartesians' loop writes, in order
WriteOne(item, path) ==
    <<File(path, "vectors", item.i, "vectors.txt")>>
    \o ndarrays_to_xyz(File(path, "true", item.i, "true.xyz"))
    \o ndarrays_to_xyz(File(path, "predicted", item.i, "pred.xyz"))
    \o ndarrays_to_xyz(File(path, "midpoints", item.i, "midpoint.xyz"))
    \o ndarrays_to_xyz(File(path, "reactants", item.i, "reactant.xyz"))
    \o ndarrays_to_xyz(File(path, "products", item.i, "product.xyz"))

RECURSIVE WriteAll(_, _, _)
WriteAll(items, k, path) ==
    IF k > Len(items) THEN <<>>
    ELSE WriteOne(items[k], path) \o WriteAll(items, k + 1, path)

\* write_cartesians(data, path): the call and the sequence of files it writes
write_cartesians(data, ms, path) ==
    [data |-> data, path |-> path,
     written |-> WriteAll(unwrap_data_lazily(data, ms), 1, path)]

NoCall == [data |-> NoneData, path |-> TestPath, written |-> <<>>]

Range(s) == {s[k] : k \in 1..Len(s)}

\* __init__
WCInit ==
    /\ validation \in DataArgs
    /\ test \in DataArgs
    /\ kwargs \in SUBSET {"max_structures", "write_rate"}
    /\ max_structures \in
         IF "max_structures" \in kwargs THEN 0..MaxStructures
         ELSE {DefaultMaxStructures}
    /\ write_rate \in
         IF "write_rate" \in kwargs THEN 0..MaxRate ELSE {DefaultWriteRate}
    /\ files = {}
    /\ lastCall = NoCall
    /\ scalars = {}
    /\ printed = {}
    /\ calls = {}
    /\ phase = "training"
    /\ raised = "none"
    /\ handler = "__init__"

\* mutant: the first epoch is skipped
OnEpochEndGuardSkipFirst(epoch) == epoch > 0 /\ epoch % write_rate = 0

\* "if epoch % self.write_rate == 0"
OnEpochEndGuard(epoch) == epoch % write_rate = 0

on_epoch_end(epoch) ==
    /\ phase = "training"
    /\ Cardinality(calls \cup {epoch}) <= MaxCalls
    /\ calls' = calls \cup {epoch}
    /\ handler' = "on_epoch_end"
    /\ IF validation.none
       THEN UNCHANGED <<files, lastCall, scalars, phase, raised>>
       ELSE IF write_rate = 0
       THEN \* epoch % 0 raises ZeroDivisionError
            /\ phase' = "crashed"
            /\ raised' = "ZeroDivisionError"
            /\ UNCHANGED <<files, lastCall, scalars>>
       ELSE IF OnEpochEndGuard(epoch)
       THEN /\ scalars' = scalars \cup {<<"val_midpoint_loss", epoch>>}
            /\ lastCall' = write_cartesians(validation, max_structures, EpochPath(epoch))
            /\ files' = files \cup Range(lastCall'.written)
            /\ UNCHANGED <<phase, raised>>
       ELSE UNCHANGED <<files, lastCall, scalars, phase, raised>>
    /\ UNCHANGED <<validation, test, max_structures, write_rate, kwargs, printed>>

on_train_end ==
    /\ phase = "training"
    /\ handler' = "on_train_end"
    /\ IF test.none
       THEN /\ phase' = "ended"
            /\ UNCHANGED <<files, lastCall, printed, raised>>
       ELSE IF validation.none
       THEN \* "(z, r, p), (ts,) = self.validation" raises TypeError on None
            /\ phase' = "crashed"
            /\ raised' = "TypeError"
            /\ UNCHANGED <<files, lastCall, printed>>
       ELSE \* the loss printed as "midpoint test loss" is that of self.validation
            /\ printed' = printed \cup {<<"midpoint test loss", "validation">>}
            /\ lastCall' = write_cartesians(test, max_structures, TestPath)
            /\ files' = files \cup Range(lastCall'.written)
            /\ phase' = "ended"
            /\ UNCHANGED raised
    /\ UNCHANGED <<validation, test, max_structures, write_rate, kwargs, scalars, calls>>

\* ------------------------------------------------- WriteCartesians: claims
SubDirs == {"vectors", "true", "predicted", "midpoints", "reactants", "products"}

FilesUnder(base) == {f \in files : f.base = base}
Logged(epoch) == <<"val_midpoint_loss", epoch>> \in scalars
WritesAt(epoch) == epoch \in calls /\ epoch % write_rate = 0
NumWritten(data) == Min(Len(data.z), max_structures)

\* C1: over any sequence of on_epoch_end calls, with validation None no epoch
\* file is written and no scalar is logged; with validation provided (and a
\* write_rate of at least 1) val_midpoint_loss is logged, and structures are
\* written under epoch_<epoch>, exactly at the called epochs with
\* epoch % write_rate = 0 and at no other epoch.
C1_EpochEndWrites ==
    /\ validation.none =>
          /\ scalars = {}
          /\ \A f \in files : f.base.dir # "epoch"
    /\ (~validation.none /\ write_rate >= 1) =>
          \A e \in Epochs :
             /\ Logged(e) <=> WritesAt(e)
             /\ (FilesUnder(EpochPath(e)) # {})
                   <=> (WritesAt(e) /\ NumWritten(validation) > 0)
    /\ \A s \in scalars : s[1] = "val_midpoint_loss" /\ s[2] \in calls

\* C1 witness: one called epoch was written and logged (epoch 0 among them),
\* another called epoch was not.
C1_Witness ==
    /\ ~validation.none
    /\ write_rate = 2
    /\ calls = {0, 3}
    /\ Logged(0) /\ ~Logged(3)
    /\ FilesUnder(EpochPath(0)) # {}
    /\ FilesUnder(EpochPath(3)) = {}

\* C2: one write_cartesians call on a data set of n structures writes files for
\* exactly the indices 0 .. min(n, max_structures) - 1, and for each such index
\* exactly one file in each of the six subdirectories of the given base path.
C2_WriteCartesiansIndices ==
    ~lastCall.data.none =>
       LET w == lastCall.written
           m == NumWritten(lastCall.data)
       IN /\ {w[k].i : k \in 1..Len(w)} = 0..(m - 1)
          /\ \A k \in 1..Len(w) : w[k].base = lastCall.path /\ w[k].sub \in SubDirs
          /\ \A i \in 0..(m - 1) : \A d \in SubDirs :
                Cardinality({k \in 1..Len(w) : w[k].i = i /\ w[k].sub = d}) = 1
          /\ Len(w) <= 6 * max_structures
          /\ Range(w) \subseteq files

\* C2 witness: a call on more structures than max_structures, and it wrote some.
C2_Witness ==
    /\ ~lastCall.data.none
    /\ max_structures = 1
    /\ Len(lastCall.data.z) = 2
    /\ Len(lastCall.written) = 6

\* C3: whenever test is not None, on_train_end completes without error and
\* writes the test structures under path/test, whether validation is None or
\* provided; when test is None, on_train_end writes nothing.
C3_TestLikeValidation ==
    handler = "on_train_end" =>
       IF test.none
       THEN FilesUnder(TestPath) = {}
       ELSE /\ raised = "none"
            /\ phase = "ended"
            /\ lastCall.data = test /\ lastCall.path = TestPath
            /\ (FilesUnder(TestPath) # {}) <=> (NumWritten(test) > 0)

\* C7: a callback constructed without max_structures and write_rate uses the
\* documented defaults: at most 10 structures per call, and validation
\* structures written every 50 epochs.
C7_DocumentedDefaults ==
    kwargs = {} =>
       /\ Len(lastCall.written) =
             6 * Min(Len(lastCall.data.z), DocMaxStructures)
       /\ ~validation.none =>
             \A e \in calls : Logged(e) <=> e % DocWriteRate = 0

\* ----------------------------------------------------------- tensor shapes
\* A shape is a sequence of dimensions.

\* tf.expand_dims(x, axis) for a negative axis: the new dimension of size 1
\* sits at index axis of the result
expand_dims(shape, axis) ==
    LET at == Len(shape) + 1 + axis   \* dimensions kept before the new one
    IN SubSeq(shape, 1, at) \o <<1>> \o SubSeq(shape, at + 1, Len(shape))

\* the shape of x - y or x / y for operands of equal rank
broadcast(s1, s2) == [k \in 1..Len(s1) |-> IF s1[k] = 1 THEN s2[k] ELSE s1[k]]

\* tf.reduce_sum(x, axis) for a negative axis, keepdims False
reduce_sum_shape(shape, axis) ==
    LET at == Len(shape) + 1 + axis   \* 1-based index of the summed dimension
    IN SubSeq(shape, 1, at - 1) \o SubSeq(shape, at + 1, Len(shape))

\* utils.norm_with_epsilon(v, axis=-1, keepdims=True)
norm_shape(shape) == SubSeq(shape, 1, Len(shape) - 1) \o <<1>>

\* UnitVectors.call, on shapes
UnitVectorsShape(sum_points, shape) ==
    LET v == IF sum_points THEN shape
             ELSE broadcast(expand_dims(shape, -2), expand_dims(shape, -3))
    IN broadcast(v, norm_shape(v))

\* atomic_images.layers, on shapes
DistanceMatrixShape(r) == <<r[1], r[2], r[2]>>
BasisShape(d, n_centers) == d \o <<n_centers>>
CosineCutoffShape(d, basis) == basis
OneHotShape(z, max_z) == z \o <<max_z>>

\* ------------------------------------------------------------ Preprocessing
\* Preprocessing.call([r, z]): the shapes of [one_hot, rbf, vectors]
PreprocessingCall(layer, r, z) ==
    LET dist_matrix == DistanceMatrixShape(r)
        rbf == CosineCutoffShape(dist_matrix, BasisShape(dist_matrix, layer.n_centers))
        vectors == UnitVectorsShape(layer.sum_points, r)
        rbf2 == IF layer.sum_points THEN reduce_sum_shape(rbf, -2) ELSE rbf
    IN <<OneHotShape(z, layer.max_z), rbf2, vectors>>

\* Preprocessing.compute_output_shape([r, z])
compute_output_shape(layer, r, z) ==
    LET batch == r[1]
        points == r[2]
    IN << <<batch, points, layer.max_z>>,
          <<batch, points, points, layer.n_centers>>,
          <<batch, points, points, 3>> >>

\* __init__, with the layer not yet called
PreInit ==
    \E sp \in BOOLEAN, mz \in 1..MaxZ, nc \in 1..MaxCenters,
       batch \in 1..MaxBatch, points \in 1..MaxPoints :
       pre = [pc |-> "built",
              layer |-> [sum_points |-> sp, max_z |-> mz, n_centers |-> nc],
              r |-> <<batch, points, 3>>, z |-> <<batch, points>>,
              called |-> FALSE, out |-> <<>>,
              declared |-> FALSE, shapes |-> <<>>]

PreCall ==
    /\ pre.pc = "built"
    /\ ~pre.called
    /\ pre' = [pre EXCEPT !.called = TRUE,
                          !.out = PreprocessingCall(pre.layer, pre.r, pre.z)]

PreComputeOutputShape ==
    /\ pre.pc = "built"
    /\ ~pre.declared
    /\ pre' = [pre EXCEPT !.declared = TRUE,
                          !.shapes = compute_output_shape(pre.layer, pre.r, pre.z)]

InitPre ==
    /\ PreInit
    /\ validation = NoneData /\ test = NoneData
    /\ max_structures = DefaultMaxStructures /\ write_rate = DefaultWriteRate
    /\ kwargs = {} /\ files = {} /\ lastCall = NoCall /\ scalars = {}
    /\ printed = {} /\ calls = {} /\ phase = "idle" /\ raised = "none"
    /\ handler = "none"
    /\ uv = Idle /\ cm = Idle

NextPre ==
    \/ PreCall /\ UNCHANGED <<wcVars, uv, cm>>
    \/ PreComputeOutputShape /\ UNCHANGED <<wcVars, uv, cm>>

SpecPre == InitPre /\ [][NextPre]_vars

\* The shapes the class docstring documents for inputs r = (batch, points, 3)
\* and z = (batch, points)
DocumentedShapes(layer, r) ==
    << <<r[1], r[2], layer.max_z>>,
       <<r[1], r[2], r[2], layer.n_centers>>,
       <<r[1], r[2], r[2], 3>> >>

\* C4: for sum_points False or True, the three tensors call returns have the
\* documented shapes, and these are the shapes compute_output_shape returns.
C4_CallShapesAsDeclared ==
    (pre.pc = "built" /\ pre.called /\ pre.declared) =>
       /\ pre.out = DocumentedShapes(pre.layer, pre.r)
       /\ pre.out = pre.shapes

\* -------------------------------------------------------------- UnitVectors
\* A point is <<x, y, z>> with integer coordinates; a cloud is a sequence of
\* points, the (points, 3) trailing dimensions of the input. A unit vector is
\* kept exactly, as [v |-> the numerator vector, den2 |-> the square of the
\* norm it is divided by], den2 a fraction <<numerator, denominator>>.
Coords == 0..MaxCoord
Points == [1..3 -> Coords]
Clouds == UNION {[1..n -> Points] : n \in 1..MaxPoints}

\* utils.EPSILON is 1 / EpsilonInverse
EpsilonInverse == 100000000

VecSub(a, b) == [k \in 1..3 |-> a[k] - b[k]]
SumSquares(v) == v[1] * v[1] + v[2] * v[2] + v[3] * v[3]

\* utils.norm_with_epsilon(v, axis=-1, keepdims=True), squared:
\* maximum(reduce_sum(square(v)), EPSILON)
norm_with_epsilon_sq(v) ==
    LET ss == SumSquares(v)
    IN IF ss * EpsilonInverse >= 1 THEN <<ss, 1>> ELSE <<1, EpsilonInverse>>

\* mutant: i + j
PairwiseSum(inputs, a, b) == [k \in 1..3 |-> inputs[a][k] + inputs[b][k]]

\* v = i - j with i = expand_dims(inputs, -2), j = expand_dims(inputs, -3):
\* v[a][b] = inputs[a] - inputs[b]
PairwiseDifference(inputs, a, b) == VecSub(inputs[a], inputs[b])

UnitOf(v) == [v |-> v, den2 |-> norm_with_epsilon_sq(v)]

\* UnitVectors.call
UnitVectorsCall(sum_points, inputs) ==
    LET n == Len(inputs)
    IN IF sum_points
       THEN [a \in 1..n |-> UnitOf(inputs[a])]
       ELSE [a \in 1..n |-> [b \in 1..n |-> UnitOf(PairwiseDifference(inputs, a, b))]]

UVInit ==
    \E sp \in BOOLEAN, inputs \in Clouds :
       uv = [pc |-> "built", sum_points |-> sp, inputs |-> inputs, out |-> <<>>]

UVCall ==
    /\ uv.pc = "built"
    /\ uv' = [uv EXCEPT !.pc = "called",
                        !.out = UnitVectorsCall(uv.sum_points, uv.inputs)]

InitUV ==
    /\ UVInit
    /\ validation = NoneData /\ test = NoneData
    /\ max_structures = DefaultMaxStructures /\ write_rate = DefaultWriteRate
    /\ kwargs = {} /\ files = {} /\ lastCall = NoCall /\ scalars = {}
    /\ printed = {} /\ calls = {} /\ phase = "idle" /\ raised = "none"
    /\ handler = "none"
    /\ pre = Idle /\ cm = Idle

NextUV == UVCall /\ UNCHANGED <<wcVars, pre, cm>>

SpecUV == InitUV /\ [][NextUV]_vars

ZeroVec == [k \in 1..3 |-> 0]
Neg(v) == [k \in 1..3 |-> 0 - v[k]]

\* C5: with sum_points False the output has a (points, points, 3) layout, entry
\* [i, j] is r_i - r_j over its epsilon-guarded norm, entry [i, j] is the
\* negation of entry [j, i], every diagonal entry is the zero vector, and no
\* entry divides by zero, coincident points included.
C5_UnitVectorsAntisymmetric ==
    (uv.pc = "called" /\ ~uv.sum_points) =>
       LET n == Len(uv.inputs)
           out == uv.out
       IN /\ Len(out) = n
          /\ \A i \in 1..n :
                /\ Len(out[i]) = n
                /\ out[i][i].v = ZeroVec
                /\ \A j \in 1..n :
                      /\ Len(out[i][j].v) = 3
                      /\ \A k \in 1..3 :
                            out[i][j].v[k] = uv.inputs[i][k] - uv.inputs[j][k]
                      /\ out[i][j].v = Neg(out[j][i].v)
                      /\ out[i][j].den2 = out[j][i].den2
                      /\ out[i][j].den2[1] > 0 /\ out[i][j].den2[2] > 0
                      /\ out[i][j].den2[1] >=
                            SumSquares(out[i][j].v) * out[i][j].den2[2]

\* C5 witness: two distinct points were divided by their distance, and the
\* diagonal (a point against itself) by the guard.
C5_Witness ==
    /\ uv.pc = "called" /\ ~uv.sum_points
    /\ Len(uv.inputs) = 2
    /\ uv.inputs[1] # uv.inputs[2]
    /\ uv.out[1][2].v # ZeroVec
    /\ uv.out[1][1].den2 = <<1, EpsilonInverse>>

\* ---------------------------------------------------- exact float arithmetic
\* A natural number of any size is its sequence of base-10000 digits, lowest
\* first, without leading zeros (zero is <<>>). A non-negative real is a
\* fraction [n |-> numerator, d |-> denominator]; d = zero marks the result of
\* a division by zero (inf or nan).
RECURSIVE BigOf(_)
BigOf(k) == IF k = 0 THEN <<>> ELSE <<k % 10000>> \o BigOf(k \div 10000)

RECURSIVE BigAddC(_, _, _)
BigAddC(a, b, c) ==
    IF a = <<>> /\ b = <<>> THEN (IF c = 0 THEN <<>> ELSE <<c>>)
    ELSE LET x == (IF a = <<>> THEN 0 ELSE Head(a))
                  + (IF b = <<>> THEN 0 ELSE Head(b)) + c
         IN <<x % 10000>>
            \o BigAddC(IF a = <<>> THEN <<>> ELSE Tail(a),
                       IF b = <<>> THEN <<>> ELSE Tail(b), x \div 10000)
BigAdd(a, b) == BigAddC(a, b, 0)

RECURSIVE BigMulDigit(_, _, _)
BigMulDigit(a, k, c) ==
    IF a = <<>> THEN (IF c = 0 THEN <<>> ELSE <<c>>)
    ELSE LET x == Head(a) * k + c
         IN <<x % 10000>> \o BigMulDigit(Tail(a), k, x \div 10000)

RECURSIVE BigMul(_, _)
BigMul(a, b) ==
    IF a = <<>> \/ b = <<>> THEN <<>>
    ELSE LET rest == BigMul(a, Tail(b))
         IN BigAdd(IF Head(b) = 0 THEN <<>> ELSE BigMulDigit(a, Head(b), 0),
                   IF rest = <<>> THEN <<>> ELSE <<0>> \o rest)

RECURSIVE BigLeqFrom(_, _, _)
BigLeqFrom(a, b, k) ==
    IF k = 0 THEN TRUE
    ELSE IF a[k] # b[k] THEN a[k] < b[k]
    ELSE BigLeqFrom(a, b, k - 1)
BigLeq(a, b) ==
    IF Len(a) # Len(b) THEN Len(a) < Len(b) ELSE BigLeqFrom(a, b, Len(a))

Frac(n, d) == [n |-> n, d |-> d]
FracOf(k) == Frac(BigOf(k), BigOf(1))
FracAdd(x, y) == Frac(BigAdd(BigMul(x.n, y.d), BigMul(y.n, x.d)), BigMul(x.d, y.d))
FracMul(x, y) == Frac(BigMul(x.n, y.n), BigMul(x.d, y.d))
FracDiv(x, y) == Frac(BigMul(x.n, y.d), BigMul(x.d, y.n))
FracDefined(x) == x.d # <<>>
FracIsZero(x) == x.d # <<>> /\ x.n = <<>>
FracLeq(x, y) == BigLeq(BigMul(x.n, y.d), BigMul(y.n, x.d))

\* ---------------------------------------------------- ClassificationMetrics
\* 1e-7 is 1 / MetricEpsilonInverse
MetricEpsilonInverse == 10000000
MetricEpsilon == Frac(BigOf(1), BigOf(MetricEpsilonInverse))

\* An array entry is the fraction <<num, den>> of small integers.
Entries == {<<k, Grid>> : k \in 0..Grid}
Arrays(len) == [1..len -> Entries]

\* y_true * y_pred, elementwise
Times(y_true, y_pred) ==
    [k \in 1..Len(y_true) |->
       <<y_true[k][1] * y_pred[k][1], y_true[k][2] * y_pred[k][2]>>]

\* np.clip(x, 0, 1) of one entry
clip(x) == IF x[1] < 0 THEN <<0, x[2]>> ELSE IF x[1] > x[2] THEN <<x[2], x[2]>> ELSE x

\* np.round of one entry: to the nearest integer, a half to the even one
round(x) ==
    LET q == x[1] \div x[2]
        rem == x[1] % x[2]
    IN IF 2 * rem < x[2] THEN q
       ELSE IF 2 * rem > x[2] THEN q + 1
       ELSE IF q % 2 = 0 THEN q ELSE q + 1

RECURSIVE SumFrom(_, _)
SumFrom(a, k) == IF k > Len(a) THEN 0 ELSE a[k] + SumFrom(a, k + 1)

\* np.sum(np.round(np.clip(a, 0, 1)))
CountPositives(a) == SumFrom([k \in 1..Len(a) |-> round(clip(a[k]))], 1)

true_positives(y_true, y_pred) == CountPositives(Times(y_true, y_pred))
possible_positives(y_true) == CountPositives(y_true)
predicted_positives(y_pred) == CountPositives(y_pred)

\* mutant: the epsilon of the denominator is left out
recallNoEpsilon(y_true, y_pred) ==
    FracDiv(FracOf(true_positives(y_true, y_pred)), FracOf(possible_positives(y_true)))

recall(y_true, y_pred) ==
    FracDiv(FracOf(true_positives(y_true, y_pred)),
            FracAdd(FracOf(possible_positives(y_true)), MetricEpsilon))

precision(y_true, y_pred) ==
    FracDiv(FracOf(true_positives(y_true, y_pred)),
            FracAdd(FracOf(predicted_positives(y_pred)), MetricEpsilon))

f1_score(y_true, y_pred) ==
    LET rec == recall(y_true, y_pred)
        prec == precision(y_true, y_pred)
    IN FracMul(FracOf(2),
               FracDiv(FracMul(prec, rec),
                       FracAdd(FracAdd(prec, rec), MetricEpsilon)))

\* argmax over the last axis, as a Python index: the first position of the
\* largest entry; over an axis with no entry it raises
RECURSIVE ArgmaxFrom(_, _, _)
ArgmaxFrom(a, k, best) ==
    IF k > Len(a) THEN best - 1
    ELSE IF a[k][1] * a[best][2] > a[best][1] * a[k][2]
    THEN ArgmaxFrom(a, k + 1, k)
    ELSE ArgmaxFrom(a, k + 1, best)
argmax(a) ==
    IF Len(a) = 0 THEN [raised |-> "InvalidArgumentError", index |-> -1]
    ELSE [raised |-> "none", index |-> ArgmaxFrom(a, 2, 1)]

\* np.mean(categorical_accuracy(target, prediction)) on 1-D arrays: 1.0 when
\* the two argmax agree, else 0.0; an argmax that raises leaves no value
accuracy(y_true, y_pred) ==
    LET t == argmax(y_true)
        q == argmax(y_pred)
    IN IF t.raised # "none" THEN [raised |-> t.raised, value |-> FracOf(0)]
       ELSE IF q.raised # "none" THEN [raised |-> q.raised, value |-> FracOf(0)]
       ELSE [raised |-> "none",
             value |-> FracOf(IF t.index = q.index THEN 1 ELSE 0)]

Scalar(name, value, step) == [name |-> name, value |-> value, step |-> step]

\* __init__(validation, log_dir): validation[1] is the target array
CMInit ==
    \E len \in 0..MaxLen : \E target \in Arrays(len) :
       cm = [pc |-> "ready", target |-> target, prediction |-> <<>>,
             epoch |-> 0, metrics |-> <<>>, raised |-> "none",
             scalars |-> <<>>, printed |-> <<>>]

\* on_epoch_end(epoch): the model's prediction is any array shaped like the
\* target. f1score, precision and recall are computed first (metrics); if the
\* accuracy then raises, the handler ends there with nothing logged; otherwise
\* four scalars are logged at step epoch (f1score, precision, recall,
\* accuracy, in this order) and the metrics line is printed
CMOnEpochEnd ==
    /\ cm.pc = "ready"
    /\ \E prediction \in Arrays(Len(cm.target)) :
          LET f1score == f1_score(cm.target, prediction)
              prec == precision(cm.target, prediction)
              rec == recall(cm.target, prediction)
              acc == accuracy(cm.target, prediction)
              metrics == [f1score |-> f1score, precision |-> prec, recall |-> rec]
          IN \E epoch \in 0..MaxMetricEpoch :
                IF acc.raised # "none"
                THEN cm' = [cm EXCEPT
                              !.pc = "raised",
                              !.prediction = prediction,
                              !.epoch = epoch,
                              !.metrics = metrics,
                              !.raised = acc.raised]
                ELSE cm' = [cm EXCEPT
                              !.pc = "logged",
                              !.prediction = prediction,
                              !.epoch = epoch,
                              !.metrics = metrics,
                              !.scalars = <<Scalar("f1score", f1score, epoch),
                                            Scalar("precision", prec, epoch),
                                            Scalar("recall", rec, epoch),
                                            Scalar("accuracy", acc.value, epoch)>>,
                              !.printed = <<"Metrics for epoch", epoch, f1score,
                                            prec, rec, acc.value>>]

InitCM ==
    /\ CMInit
    /\ validation = NoneData /\ test = NoneData
    /\ max_structures = DefaultMaxStructures /\ write_rate = DefaultWriteRate
    /\ kwargs = {} /\ files = {} /\ lastCall = NoCall /\ scalars = {}
    /\ printed = {} /\ calls = {} /\ phase = "idle" /\ raised = "none"
    /\ handler = "none"
    /\ pre = Idle /\ uv = Idle

NextCM == CMOnEpochEnd /\ UNCHANGED <<wcVars, pre, uv>>

SpecCM == InitCM /\ [][NextCM]_vars

\* C6: precision, recall and f1_score are defined for every pair of equally
\* shaped arrays with entries in [0, 1]; the true-positive count exceeds
\* neither the possible-positive nor the predicted-positive count, precision
\* and recall lie in [0, 1], and f1_score is 0 whenever no positive is true.
C6_MetricsDefinedAndBounded ==
    cm.pc \in {"logged", "raised"} =>
       LET tp == true_positives(cm.target, cm.prediction)
           pp == possible_positives(cm.target)
           dp == predicted_positives(cm.prediction)
           f1score == cm.metrics.f1score
           prec == cm.metrics.precision
           rec == cm.metrics.recall
       IN /\ FracDefined(prec) /\ FracDefined(rec)
          /\ FracDefined(f1score)
          /\ 0 <= tp /\ tp <= pp /\ tp <= dp
          /\ FracLeq(prec, FracOf(1))
          /\ FracLeq(rec, FracOf(1))
          /\ (tp = 0) => FracIsZero(f1score)
          /\ cm.pc = "logged" =>
                /\ cm.scalars[1] = Scalar("f1score", f1score, cm.epoch)
                /\ cm.scalars[2] = Scalar("precision", prec, cm.epoch)
                /\ cm.scalars[3] = Scalar("recall", rec, cm.epoch)

\* C6 witness: no actual positive and no predicted positive, so both plain
\* denominators are zero, and the f1score logged is 0.
C6_Witness ==
    /\ cm.pc = "logged"
    /\ Len(cm.target) = 2
    /\ possible_positives(cm.target) = 0
    /\ predicted_positives(cm.prediction) = 0
    /\ cm.scalars[1].name = "f1score"
    /\ FracIsZero(cm.scalars[1].value)

Init == WCInit /\ pre = Idle /\ uv = Idle /\ cm = Idle

Next ==
    \/ \E epoch \in Epochs : on_epoch_end(epoch) /\ UNCHANGED <<pre, uv, cm>>
    \/ on_train_end /\ UNCHANGED <<pre, uv, cm>>

Spec == Init /\ [][Next]_vars

====
